---------------------------- MODULE Spec2Model ----------------------------
(***************************************************************************)
(* A model of src/job_automator.py: the three source adapters, the         *)
(* deduplicating relevance filter, the per-posting enrichment loop with    *)
(* incremental persistence, and the digest ordering, run repeatedly        *)
(* against one Google-Sheets store.                                        *)
(*                                                                         *)
(* Text is modelled as tuples of one-character strings so that lower(),    *)
(* split(), replace() and the substring tests of the code are computed     *)
(* and not assumed.  Time is counted in whole hours.  Posting fields that  *)
(* no modelled decision reads (company, apply_link, salary, tags) are      *)
(* left out of the records.                                                *)
(***************************************************************************)
EXTENDS Integers, Sequences, FiniteSets, TLC

VARIABLES
    pc,            \* position of the run inside the module / main()
    run,           \* number of the current invocation of the script
    remote_only,   \* REMOTE_ONLY
    profile,       \* result of analyze_resume
    store,         \* the "Jobs" worksheet: header row present?, job_id of each data row
    already_seen,  \* result of get_already_seen_ids
    focus,         \* the provider whose payload is drawn from the wide set
    payload,       \* what each provider answered in this run
    rok_jobs,      \* result of fetch_remoteok_jobs
    arb_jobs,      \* result of fetch_arbeitnow_jobs
    muse_jobs,     \* result of fetch_themuse_jobs
    all_jobs,      \* main: all_jobs
    filtered,      \* filter_relevant_jobs: filtered, before the final slice
    accepted,      \* positions of all_jobs that the filter loop appended
    relevant_jobs, \* main: relevant_jobs
    i,             \* main: loop index of the enrichment loop (1-based)
    ai,            \* main: result of analyze_job for posting i
    jobs_with_ai,  \* main: jobs_with_ai
    report,        \* the (job, ai) pairs in the order the digest renders them
    hist,          \* the external calls made in this run, in order
    last_pairs     \* the job ids of jobs_with_ai when the previous run ended

vars == <<pc, run, remote_only, profile, store, already_seen, focus, payload, rok_jobs,
          arb_jobs, muse_jobs, all_jobs, filtered, accepted, relevant_jobs, i,
          ai, jobs_with_ai, report, hist, last_pairs>>

---------------------------------------------------------------------------
(* Bounds of the model                                                     *)

\* longest provider payload drawn for the adapter under focus
MaxEntries == 2
\* the hour at which the adapters are invoked
Now == 100
\* number of invocations of the script against the same store
MaxRuns == 2
\* largest number of postings one provider contributes to the filter input
MaxVolume == 8
\* longest list of enriched pairs handed to the digest
MaxPairs == 3

(* Program constants                                                       *)

\* timedelta(hours=24)
LookbackHours == 24
\* description[:3000]
DescLimit == 3000
\* skills[:8]
TopSkills == 8
\* filtered[:20]
MaxRelevant == 20

---------------------------------------------------------------------------
(* Text                                                                    *)

Upper == <<"A", "B", "C", "D", "E", "F", "G", "H", "I", "J", "K", "L", "M", "N", "O", "P", "Q", "R", "S", "T", "U", "V", "W", "X", "Y", "Z">>
LowerLetters == <<"a", "b", "c", "d", "e", "f", "g", "h", "i", "j", "k", "l", "m", "n", "o", "p", "q", "r", "s", "t", "u", "v", "w", "x", "y", "z">>

LowerOf == [c \in {Upper[k] : k \in 1..26} |-> LowerLetters[CHOOSE k \in 1..26 : Upper[k] = c]]

\* str.lower() on one character
LowerChar(c) == IF c \in DOMAIN LowerOf THEN LowerOf[c] ELSE c

\* str.lower()
Lower(s) == [k \in 1..Len(s) |-> LowerChar(s[k])]

\* sub in s
Contains(sub, s) ==
    \E k \in 0..(Len(s) - Len(sub)) : \A j \in 1..Len(sub) : s[k + j] = sub[j]

\* s[:n]
Take(s, n) == SubSeq(s, 1, IF Len(s) < n THEN Len(s) ELSE n)

\* s.replace(old, new), old non-empty: leftmost non-overlapping occurrences
RECURSIVE Replace(_, _, _)
Replace(s, old, new) ==
    IF Len(s) < Len(old) THEN s
    ELSE IF SubSeq(s, 1, Len(old)) = old
         THEN new \o Replace(SubSeq(s, Len(old) + 1, Len(s)), old, new)
         ELSE <<Head(s)>> \o Replace(Tail(s), old, new)

\* s.split()[0] for a string holding at least one word
RECURSIVE FirstWord(_)
FirstWord(s) ==
    IF s = <<>> THEN <<>>
    ELSE IF Head(s) = " " THEN FirstWord(Tail(s))
    ELSE LET rest == Tail(s)
         IN  IF rest = <<>> \/ Head(rest) = " " THEN <<Head(s)>>
             ELSE <<Head(s)>> \o FirstWord(rest)

\* sep.join(parts)
RECURSIVE Join(_, _)
Join(sep, parts) ==
    IF parts = <<>> THEN <<>>
    ELSE IF Len(parts) = 1 THEN parts[1]
    ELSE parts[1] \o sep \o Join(sep, Tail(parts))

\* all tuples over S of length at most n
SeqsUpTo(S, n) == UNION {[1..k -> S] : k \in 0..n}

---------------------------------------------------------------------------
(* Timestamps of provider entries                                          *)

NoDate == [present |-> FALSE, valid |-> TRUE, t |-> 0]
BadDate == [present |-> TRUE, valid |-> FALSE, t |-> 0]
Date(t) == [present |-> TRUE, valid |-> TRUE, t |-> t]

\* cutoff = datetime.now(timezone.utc) - timedelta(hours=24)
Cutoff == Now - LookbackHours

\* the timestamps a provider entry may carry: none, unparsable, older than
\* the cutoff, exactly at the cutoff, inside the window, in the future
Dates == {NoDate, BadDate, Date(Cutoff - 1), Date(Cutoff), Date(Now - 1), Date(Now + 1)}

---------------------------------------------------------------------------
(* Source adapters                                                         *)

Raised == [raised |-> TRUE, jobs |-> <<>>]
Returned(jobs) == [raised |-> FALSE, jobs |-> jobs]

Providers == {"rok", "arb", "muse"}

\* a faulty variant: the exception leaves the adapter
Caught_Propagates(r) == [aborted |-> r.raised, jobs |-> r.jobs]

\* try: ... return jobs / except Exception as e: ... return []
Caught(r) == [aborted |-> FALSE, jobs |-> IF r.raised THEN <<>> ELSE r.jobs]

\* the outcomes of requests.get(...), raise_for_status() and r.json()
Statuses == {"ok", "transport_error", "http_error", "bad_json"}
Response(status, data) == [status |-> status, data |-> data]

\* before the adapters are called
NoPayload == [p \in Providers |-> Response("none", <<>>)]

\* (job.get("description") or "").replace("<", " <")[:3000]
CleanDescription(d) == Take(Replace(d, <<"<">>, <<" ", "<">>), DescLimit)

\* the posting built from one RemoteOK entry
RemoteOKPosting(job) ==
    [job_id      |-> <<"rok", job.id>>,
     title       |-> job.position,
     location    |-> <<"R", "e", "m", "o", "t", "e">>,
     remote      |-> TRUE,
     description |-> CleanDescription(job.description),
     posted_at   |-> job.date,
     source      |-> "RemoteOK"]

\* a faulty variant: an undated or stale entry is kept
RemoteOKStale_NoCutoff(posted) == FALSE

\* posted < cutoff
RemoteOKStale(posted) == posted < Cutoff

\* the for-loop of fetch_remoteok_jobs over the decoded payload
RECURSIVE RemoteOKLoop(_, _)
RemoteOKLoop(data, jobs) ==
    IF data = <<>> THEN Returned(jobs)
    ELSE LET job == Head(data)
         IN  IF ~job.is_dict \/ job.id = 0
             THEN RemoteOKLoop(Tail(data), jobs)
             ELSE IF job.date.present /\ ~job.date.valid
             THEN Raised
             ELSE LET posted == IF job.date.present THEN job.date.t ELSE Now
                  IN  IF RemoteOKStale(posted)
                      THEN RemoteOKLoop(Tail(data), jobs)
                      ELSE RemoteOKLoop(Tail(data), Append(jobs, RemoteOKPosting(job)))

fetch_remoteok_jobs(resp) ==
    Caught(IF resp.status # "ok" THEN Raised ELSE RemoteOKLoop(resp.data, <<>>))

\* the posting built from one Arbeitnow entry
ArbeitnowPosting(job) ==
    [job_id      |-> <<"arb", job.slug>>,
     title       |-> job.title,
     location    |-> IF job.location # <<>> THEN job.location
                     ELSE IF job.remote THEN <<"R", "e", "m", "o", "t", "e">> ELSE <<"N", "/", "A">>,
     remote      |-> job.remote,
     description |-> CleanDescription(job.description),
     posted_at   |-> job.created_at,
     source      |-> "Arbeitnow"]

\* the for-loop of fetch_arbeitnow_jobs; a missing created_at reads as 0, the epoch
RECURSIVE ArbeitnowLoop(_, _)
ArbeitnowLoop(data, jobs) ==
    IF data = <<>> THEN Returned(jobs)
    ELSE LET job == Head(data)
         IN  IF job.created_at.present /\ ~job.created_at.valid
             THEN Raised
             ELSE LET posted == IF job.created_at.present THEN job.created_at.t ELSE 0
                  IN  IF posted < Cutoff
                      THEN ArbeitnowLoop(Tail(data), jobs)
                      ELSE IF job.slug = 0
                      THEN Raised
                      ELSE ArbeitnowLoop(Tail(data), Append(jobs, ArbeitnowPosting(job)))

fetch_arbeitnow_jobs(resp) ==
    Caught(IF resp.status # "ok" THEN Raised ELSE ArbeitnowLoop(resp.data, <<>>))

MuseTags ==
    << <<"<", "p", ">">>, <<"<", "/", "p", ">">>, <<"<", "b", "r", ">">>, <<"<", "u", "l", ">">>, <<"<", "l", "i", ">">>, <<"<", "/", "l", "i", ">">>, <<"<", "/", "u", "l", ">">>,
       <<"<", "s", "t", "r", "o", "n", "g", ">">>, <<"<", "/", "s", "t", "r", "o", "n", "g", ">">>, <<"<", "e", "m", ">">>, <<"<", "/", "e", "m", ">">> >>

\* for tag in [...]: desc = desc.replace(tag, " ")
RECURSIVE StripTags(_, _)
StripTags(desc, tags) ==
    IF tags = <<>> THEN desc
    ELSE StripTags(Replace(desc, Head(tags), <<" ">>), Tail(tags))

\* the posting built from one entry of The Muse
MusePosting(job) ==
    [job_id      |-> <<"muse", job.id>>,
     title       |-> job.name,
     location    |-> IF Join(<<",", " ">>, job.locations) # <<>>
                     THEN Join(<<",", " ">>, job.locations) ELSE <<"N", "/", "A">>,
     remote      |-> \E k \in 1..Len(job.locations) :
                         Contains(<<"r", "e", "m", "o", "t", "e">>, Lower(job.locations[k])),
     description |-> Take(StripTags(job.contents, MuseTags), DescLimit),
     posted_at   |-> job.publication_date,
     source      |-> "The Muse"]

\* the for-loop of fetch_themuse_jobs; an entry without publication_date is not tested
RECURSIVE MuseLoop(_, _)
MuseLoop(results, jobs) ==
    IF results = <<>> THEN Returned(jobs)
    ELSE LET job == Head(results)
             pub == job.publication_date
         IN  IF pub.present /\ ~pub.valid
             THEN Raised
             ELSE IF pub.present /\ pub.t < Cutoff
             THEN MuseLoop(Tail(results), jobs)
             ELSE IF job.id = 0
             THEN Raised
             ELSE MuseLoop(Tail(results), Append(jobs, MusePosting(job)))

fetch_themuse_jobs(resp) ==
    Caught(IF resp.status # "ok" THEN Raised ELSE MuseLoop(resp.data, <<>>))

---------------------------------------------------------------------------
(* Deduplication and relevance filter                                      *)

non_us ==
    { <<"i", "n", "d", "i", "a">>, <<"u", "k">>, <<"g", "e", "r", "m", "a", "n", "y">>, <<"f", "r", "a", "n", "c", "e">>, <<"c", "a", "n", "a", "d", "a">>, <<"a", "u", "s", "t", "r", "a", "l", "i", "a">>,
      <<"n", "e", "t", "h", "e", "r", "l", "a", "n", "d", "s">>, <<"s", "i", "n", "g", "a", "p", "o", "r", "e">>, <<"b", "r", "a", "z", "i", "l">>, <<"s", "p", "a", "i", "n">>, <<"i", "t", "a", "l", "y">>, <<"p", "o", "l", "a", "n", "d">>,
      <<"s", "w", "e", "d", "e", "n">>, <<"n", "o", "r", "w", "a", "y">>, <<"d", "e", "n", "m", "a", "r", "k">>, <<"f", "i", "n", "l", "a", "n", "d">>, <<"s", "w", "i", "t", "z", "e", "r", "l", "a", "n", "d">>, <<"a", "u", "s", "t", "r", "i", "a">>,
      <<"b", "e", "l", "g", "i", "u", "m">>, <<"p", "o", "r", "t", "u", "g", "a", "l">>, <<"m", "e", "x", "i", "c", "o">>, <<"a", "r", "g", "e", "n", "t", "i", "n", "a">>, <<"c", "o", "l", "o", "m", "b", "i", "a">>, <<"p", "h", "i", "l", "i", "p", "p", "i", "n", "e", "s">>,
      <<"p", "a", "k", "i", "s", "t", "a", "n">>, <<"b", "a", "n", "g", "l", "a", "d", "e", "s", "h">>, <<"n", "i", "g", "e", "r", "i", "a">>, <<"k", "e", "n", "y", "a">>, <<"s", "o", "u", "t", "h", " ", "a", "f", "r", "i", "c", "a">>, <<"e", "g", "y", "p", "t">>,
      <<"d", "u", "b", "a", "i">>, <<"u", "a", "e">>, <<"l", "o", "n", "d", "o", "n">>, <<"b", "e", "r", "l", "i", "n">>, <<"p", "a", "r", "i", "s">>, <<"t", "o", "r", "o", "n", "t", "o">>, <<"s", "y", "d", "n", "e", "y">>, <<"m", "u", "m", "b", "a", "i">>,
      <<"b", "a", "n", "g", "a", "l", "o", "r", "e">>, <<"d", "e", "l", "h", "i">>, <<"a", "m", "s", "t", "e", "r", "d", "a", "m">>, <<"r", "e", "m", "o", "t", "e", " ", "-", " ", "u", "k">>, <<"r", "e", "m", "o", "t", "e", " ", "-", " ", "e", "u", "r", "o", "p", "e">>,
      <<"r", "e", "m", "o", "t", "e", " ", "-", " ", "c", "a", "n", "a", "d", "a">>, <<"r", "e", "m", "o", "t", "e", " ", "-", " ", "a", "u", "s", "t", "r", "a", "l", "i", "a">> }

\* target_roles = [r.lower() for r in profile.get("target_roles", [])]
TargetRoles(prof) == [k \in 1..Len(prof.target_roles) |-> Lower(prof.target_roles[k])]

\* skills = [s.lower() for s in profile.get("skills", [])[:8]]
Skills(prof) ==
    LET top == Take(prof.skills, TopSkills)
    IN  [k \in 1..Len(top) |-> Lower(top[k])]

\* a faulty variant: only the ids accepted in this pass are consulted
IsDuplicate_IgnoresSeenSet(jid, seen, seen_ids) == jid \in seen_ids

\* a faulty variant: only the ids of earlier runs are consulted
IsDuplicate_IgnoresThisPass(jid, seen, seen_ids) == jid \in seen

\* jid in already_seen or jid in seen_ids
IsDuplicate(jid, seen, seen_ids) == jid \in seen \/ jid \in seen_ids

\* REMOTE_ONLY and not job.get("remote")
NotRemote(job, remoteOnly) == remoteOnly /\ ~job.remote

\* location and any(kw in location for kw in non_us), location lower-cased
NonUS(job) ==
    LET location == Lower(job.location)
    IN  location # <<>> /\ \E kw \in non_us : Contains(kw, location)

\* text = (job["title"] + " " + job["description"]).lower()
JobText(job) == Lower(job.title \o <<" ">> \o job.description)

\* role_match = any(role.split()[0] in text for role in target_roles)
RoleMatch(text, target_roles) ==
    \E r \in 1..Len(target_roles) : Contains(FirstWord(target_roles[r]), text)

\* sum(1 for sk in skills if sk in text)
SkillCount(text, skills) ==
    Cardinality({k \in 1..Len(skills) : Contains(skills[k], text)})

\* a faulty variant: the threshold of the unreachable second policy
SkillMatch_TwoNeeded(text, skills) == SkillCount(text, skills) >= 2

\* skill_match = sum(...) >= 1
SkillMatch(text, skills) == SkillCount(text, skills) >= 1

\* if role_match or skill_match
Relevant(job, target_roles, skills) ==
    LET text == JobText(job)
    IN  RoleMatch(text, target_roles) \/ SkillMatch(text, skills)

\* the for-loop of filter_relevant_jobs from position k on; acc holds seen_ids,
\* filtered and the positions appended so far
RECURSIVE FilterLoop(_, _, _, _, _, _, _)
FilterLoop(jobs, target_roles, skills, seen, remoteOnly, k, acc) ==
    IF k > Len(jobs) THEN acc
    ELSE LET job == jobs[k]
             jid == job.job_id
         IN  IF IsDuplicate(jid, seen, acc.seen_ids)
                \/ NotRemote(job, remoteOnly)
                \/ NonUS(job)
                \/ ~Relevant(job, target_roles, skills)
             THEN FilterLoop(jobs, target_roles, skills, seen, remoteOnly, k + 1, acc)
             ELSE FilterLoop(jobs, target_roles, skills, seen, remoteOnly, k + 1,
                             [seen_ids |-> acc.seen_ids \cup {jid},
                              filtered |-> Append(acc.filtered, job),
                              accepted |-> Append(acc.accepted, k)])

\* a faulty variant: the whole list is returned
FinalSlice_NoCap(fl) == fl

\* return filtered[:20]
FinalSlice(fl) == Take(fl, MaxRelevant)

EmptyAcc == [seen_ids |-> {}, filtered |-> <<>>, accepted |-> <<>>]

\* filter_relevant_jobs(jobs, profile, already_seen) under REMOTE_ONLY: the
\* list before the slice, the positions it was taken from, the list returned
filter_relevant_jobs(jobs, prof, seen, remoteOnly) ==
    LET acc == FilterLoop(jobs, TargetRoles(prof), Skills(prof), seen, remoteOnly, 1, EmptyAcc)
    IN  [filtered |-> acc.filtered,
         accepted |-> acc.accepted,
         returned |-> FinalSlice(acc.filtered)]

\* all_jobs = fetch_remoteok_jobs() + fetch_arbeitnow_jobs(primary_role) + fetch_themuse_jobs()
Concatenate(a, b, c) == a \o b \o c

---------------------------------------------------------------------------
(* Store, enrichment loop and digest                                       *)

Range(s) == {s[k] : k \in 1..Len(s)}

Event(op, k) == [op |-> op, k |-> k]
NoHist == <<>>
Did(op) == \E n \in 1..Len(hist) : hist[n].op = op
DidAt(op, k) == \E n \in 1..Len(hist) : hist[n] = Event(op, k)
Times(op, k) == Cardinality({n \in 1..Len(hist) : hist[n] = Event(op, k)})

NoProfile == [target_roles |-> <<>>, skills |-> <<>>]
NoAi == [has_score |-> FALSE, match_score |-> 0]

\* a faulty variant: the ids of the rows are never collected
get_already_seen_ids_Forgets(sheet, readOk) == {}

\* get_already_seen_ids: get_all_records() keys every row below the first by
\* the cells of the first row, so job ids are found only under the header row
get_already_seen_ids(sheet, readOk) ==
    IF ~readOk THEN {}
    ELSE IF sheet.header THEN Range(sheet.rows)
    ELSE {}

\* a faulty variant: the exception leaves ensure_sheet_headers and main
HeadersFailed_Propagates == "crashed"

\* ensure_sheet_headers: except Exception as e: print(...); main goes on to
\* get_already_seen_ids
HeadersFailed == "seen"

\* a faulty variant: main goes on although nothing was filtered
AfterFilter_NoEarlyReturn(rel) == "analyze"

\* if not relevant_jobs: ... return
AfterFilter(rel) == IF rel = <<>> THEN "done" ELSE "analyze"

\* the steps of one pass through the try-block of the enrichment loop (faulty variant:
\* the pair is recorded before its row is written)
LoopFlow_PairFirst(step) ==
    CASE step = "analyze" -> "append"
      [] step = "append" -> "write"
      [] step = "write" -> "next"

\* ai = analyze_job(job, profile); write_job_to_sheet(sheet, job, ai);
\* jobs_with_ai.append((job, ai))
LoopFlow(step) ==
    CASE step = "analyze" -> "write"
      [] step = "write" -> "append"
      [] step = "append" -> "next"

\* for i, job in enumerate(relevant_jobs, 1): the move to the next posting
NextIteration(k, rel) ==
    [pc |-> IF k + 1 > Len(rel) THEN "email" ELSE "analyze", i |-> k + 1]

Goto(step, k, rel) ==
    IF step = "next" THEN NextIteration(k, rel) ELSE [pc |-> step, i |-> k]

\* a faulty variant: the exception leaves the loop
SkipPosting_Propagates(k, rel) == [pc |-> "crashed", i |-> k]

\* except Exception as e: print(...); time.sleep(3)
SkipPosting(k, rel) == NextIteration(k, rel)

\* ai.get("match_score", 0)
Score(a) == IF a.has_score THEN a.match_score ELSE 0

\* the place of pair p in a list already in descending order: behind every
\* pair whose score is not smaller
RECURSIVE InsertDescending(_, _)
InsertDescending(s, p) ==
    IF s = <<>> THEN <<p>>
    ELSE IF Score(Head(s)[2]) >= Score(p[2])
         THEN <<Head(s)>> \o InsertDescending(Tail(s), p)
         ELSE <<p>> \o s

RECURSIVE StableDescending(_, _)
StableDescending(pairs, done) ==
    IF pairs = <<>> THEN done
    ELSE StableDescending(Tail(pairs), InsertDescending(done, Head(pairs)))

Reverse(s) == [k \in 1..Len(s) |-> s[Len(s) + 1 - k]]

RECURSIVE InsertAscending(_, _)
InsertAscending(s, p) ==
    IF s = <<>> THEN <<p>>
    ELSE IF Score(Head(s)[2]) <= Score(p[2])
         THEN <<Head(s)>> \o InsertAscending(Tail(s), p)
         ELSE <<p>> \o s

RECURSIVE StableAscending(_, _)
StableAscending(pairs, done) ==
    IF pairs = <<>> THEN done
    ELSE StableAscending(Tail(pairs), InsertAscending(done, Head(pairs)))

\* a faulty variant: sorted ascending, then reversed
sorted_jobs_Reversed(pairs) == Reverse(StableAscending(pairs, <<>>))

\* sorted(jobs_with_ai, key=lambda x: x[1].get("match_score", 0), reverse=True)
sorted_jobs(pairs) == StableDescending(pairs, <<>>)

---------------------------------------------------------------------------
(* The run: module-level configuration and main()                          *)

\* the values a finished run leaves behind are dropped when the script is
\* started again; only the worksheet survives
FreshRun ==
    /\ remote_only' = FALSE
    /\ profile' = NoProfile
    /\ already_seen' = {}
    /\ payload' = NoPayload
    /\ rok_jobs' = <<>>
    /\ arb_jobs' = <<>>
    /\ muse_jobs' = <<>>
    /\ all_jobs' = <<>>
    /\ filtered' = <<>>
    /\ accepted' = <<>>
    /\ relevant_jobs' = <<>>
    /\ i' = 0
    /\ ai' = NoAi
    /\ jobs_with_ai' = <<>>
    /\ report' = <<>>

\* GROQ_API_KEY = os.environ["GROQ_API_KEY"] ... REMOTE_ONLY = ...
LoadConfig(toggles) ==
    /\ pc = "config"
    /\ \E complete \in BOOLEAN :
          IF complete
          THEN /\ \E t \in toggles : remote_only' = t
               /\ pc' = "resume"
               /\ UNCHANGED hist
          ELSE /\ pc' = "halted"
               /\ hist' = Append(hist, Event("config_missing", 0))
               /\ UNCHANGED remote_only
    /\ UNCHANGED <<run, last_pairs, payload, profile, store, already_seen, focus, rok_jobs, arb_jobs,
                   muse_jobs, all_jobs, filtered, accepted, relevant_jobs, i, ai,
                   jobs_with_ai, report>>

\* profile = analyze_resume(RESUME_TEXT)
AnalyzeResume(profiles) ==
    /\ pc = "resume"
    /\ \E ok \in BOOLEAN :
          IF ok
          THEN /\ \E p \in profiles : profile' = p
               /\ pc' = "connect"
               /\ UNCHANGED hist
          ELSE /\ pc' = "crashed"
               /\ hist' = Append(hist, Event("resume_failed", 0))
               /\ UNCHANGED profile
    /\ UNCHANGED <<run, last_pairs, payload, remote_only, store, already_seen, focus, rok_jobs, arb_jobs,
                   muse_jobs, all_jobs, filtered, accepted, relevant_jobs, i, ai,
                   jobs_with_ai, report>>

\* gc = get_sheets_client(); spreadsheet = gc.open_by_key(...); the worksheet
\* "Jobs" is opened, or added when it is not found
ConnectSheets ==
    /\ pc = "connect"
    /\ \E ok \in BOOLEAN :
          IF ~ok
          THEN /\ pc' = "crashed"
               /\ hist' = Append(hist, Event("connect_failed", 0))
               /\ UNCHANGED store
          ELSE /\ pc' = "headers"
               /\ IF store.worksheet
                  THEN UNCHANGED <<store, hist>>
                  ELSE /\ store' = [store EXCEPT !.worksheet = TRUE]
                       /\ hist' = Append(hist, Event("add_worksheet", 0))
    /\ UNCHANGED <<run, last_pairs, payload, remote_only, profile, already_seen, focus, rok_jobs, arb_jobs,
                   muse_jobs, all_jobs, filtered, accepted, relevant_jobs, i, ai,
                   jobs_with_ai, report>>

\* ensure_sheet_headers(sheet)
EnsureSheetHeaders ==
    /\ pc = "headers"
    /\ \E ok \in BOOLEAN :
          IF ~ok
          THEN /\ hist' = Append(hist, Event("headers_failed", 0))
               /\ pc' = HeadersFailed
               /\ UNCHANGED store
          ELSE /\ pc' = "seen"
               /\ IF store.header
                  THEN UNCHANGED <<store, hist>>
                  ELSE /\ store' = [store EXCEPT !.header = TRUE]
                       /\ hist' = Append(hist, Event("insert_row", 0))
    /\ UNCHANGED <<run, last_pairs, payload, remote_only, profile, already_seen, focus, rok_jobs, arb_jobs,
                   muse_jobs, all_jobs, filtered, accepted, relevant_jobs, i, ai,
                   jobs_with_ai, report>>

\* already_seen = get_already_seen_ids(sheet)
GetAlreadySeenIds ==
    /\ pc = "seen"
    /\ \E ok \in BOOLEAN :
          /\ already_seen' = get_already_seen_ids(store, ok)
          /\ hist' = Append(hist, Event(IF ok THEN "read_ids" ELSE "read_failed", 0))
    /\ pc' = "fetch_rok"
    /\ UNCHANGED <<run, last_pairs, payload, remote_only, profile, store, focus, rok_jobs, arb_jobs,
                   muse_jobs, all_jobs, filtered, accepted, relevant_jobs, i, ai,
                   jobs_with_ai, report>>

\* an adapter was called and answered resp; an exception leaving it ends main
Fetched(provider, resp, r, next) ==
    /\ pc' = IF r.aborted THEN "crashed" ELSE next
    /\ payload' = [payload EXCEPT ![provider] = resp]

\* fetch_remoteok_jobs()
FetchRemoteOK(responses) ==
    /\ pc = "fetch_rok"
    /\ \E resp \in responses :
          \E r \in {fetch_remoteok_jobs(resp)} :
              /\ rok_jobs' = r.jobs
              /\ Fetched("rok", resp, r, "fetch_arb")
    /\ UNCHANGED <<run, last_pairs, remote_only, profile, store, already_seen, focus,
                   arb_jobs, muse_jobs, all_jobs, filtered, accepted, relevant_jobs,
                   i, ai, jobs_with_ai, report, hist>>

\* fetch_arbeitnow_jobs(primary_role)
FetchArbeitnow(responses) ==
    /\ pc = "fetch_arb"
    /\ \E resp \in responses :
          \E r \in {fetch_arbeitnow_jobs(resp)} :
              /\ arb_jobs' = r.jobs
              /\ Fetched("arb", resp, r, "fetch_muse")
    /\ UNCHANGED <<run, last_pairs, remote_only, profile, store, already_seen, focus,
                   rok_jobs, muse_jobs, all_jobs, filtered, accepted, relevant_jobs,
                   i, ai, jobs_with_ai, report, hist>>

\* fetch_themuse_jobs()
FetchTheMuse(responses) ==
    /\ pc = "fetch_muse"
    /\ \E resp \in responses :
          \E r \in {fetch_themuse_jobs(resp)} :
              /\ muse_jobs' = r.jobs
              /\ Fetched("muse", resp, r, "filter")
    /\ UNCHANGED <<run, last_pairs, remote_only, profile, store, already_seen, focus,
                   rok_jobs, arb_jobs, all_jobs, filtered, accepted, relevant_jobs,
                   i, ai, jobs_with_ai, report, hist>>

\* all_jobs = (...); relevant_jobs = filter_relevant_jobs(all_jobs, profile,
\* already_seen); if not relevant_jobs: return
FilterJobs ==
    /\ pc = "filter"
    /\ \E jobs \in {Concatenate(rok_jobs, arb_jobs, muse_jobs)} :
       \E f \in {filter_relevant_jobs(jobs, profile, already_seen, remote_only)} :
           /\ all_jobs' = jobs
           /\ filtered' = f.filtered
           /\ accepted' = f.accepted
           /\ relevant_jobs' = f.returned
           /\ pc' = AfterFilter(f.returned)
    /\ i' = 1
    /\ hist' = Append(hist, Event("filter", 0))
    /\ UNCHANGED <<run, last_pairs, payload, remote_only, profile, store, already_seen, focus, rok_jobs,
                   arb_jobs, muse_jobs, ai, jobs_with_ai, report>>

\* ai = analyze_job(job, profile), or the exception it raises
AnalyzeJob(scores) ==
    /\ pc = "analyze"
    /\ i <= Len(relevant_jobs)
    /\ \/ \E a \in scores :
             /\ ai' = a
             /\ hist' = Append(hist, Event("oracle", i))
             /\ pc' = Goto(LoopFlow("analyze"), i, relevant_jobs).pc
             /\ i' = Goto(LoopFlow("analyze"), i, relevant_jobs).i
       \/ /\ hist' = Append(hist, Event("oracle_failed", i))
          /\ pc' = SkipPosting(i, relevant_jobs).pc
          /\ i' = SkipPosting(i, relevant_jobs).i
          /\ UNCHANGED ai
    /\ UNCHANGED <<run, last_pairs, payload, remote_only, profile, store, already_seen, focus, rok_jobs,
                   arb_jobs, muse_jobs, all_jobs, filtered, accepted, relevant_jobs,
                   jobs_with_ai, report>>

\* write_job_to_sheet(sheet, job, ai), or the exception append_row raises
WriteJobToSheet ==
    /\ pc = "write"
    /\ \/ /\ store' = [store EXCEPT !.rows = Append(@, relevant_jobs[i].job_id)]
          /\ hist' = Append(hist, Event("append_row", i))
          /\ pc' = Goto(LoopFlow("write"), i, relevant_jobs).pc
          /\ i' = Goto(LoopFlow("write"), i, relevant_jobs).i
       \/ /\ hist' = Append(hist, Event("append_failed", i))
          /\ pc' = SkipPosting(i, relevant_jobs).pc
          /\ i' = SkipPosting(i, relevant_jobs).i
          /\ UNCHANGED store
    /\ UNCHANGED <<run, last_pairs, payload, remote_only, profile, already_seen, focus, rok_jobs,
                   arb_jobs, muse_jobs, all_jobs, filtered, accepted, relevant_jobs,
                   ai, jobs_with_ai, report>>

\* jobs_with_ai.append((job, ai)); time.sleep(1.5)
AppendPair ==
    /\ pc = "append"
    /\ jobs_with_ai' = Append(jobs_with_ai, <<relevant_jobs[i], ai>>)
    /\ hist' = Append(hist, Event("pair", i))
    /\ pc' = Goto(LoopFlow("append"), i, relevant_jobs).pc
    /\ i' = Goto(LoopFlow("append"), i, relevant_jobs).i
    /\ UNCHANGED <<run, last_pairs, payload, remote_only, profile, store, already_seen, focus, rok_jobs,
                   arb_jobs, muse_jobs, all_jobs, filtered, accepted, relevant_jobs,
                   ai, report>>

\* send_email_digest(jobs_with_ai, GOOGLE_SHEET_ID)
SendEmailDigest ==
    /\ pc = "email"
    /\ IF jobs_with_ai = <<>>
       THEN /\ pc' = "done"
            /\ UNCHANGED <<report, hist>>
       ELSE \E delivered \in BOOLEAN :
               IF delivered
               THEN /\ report' = sorted_jobs(jobs_with_ai)
                    /\ hist' = Append(hist, Event("email", 0))
                    /\ pc' = "done"
               ELSE /\ pc' = "crashed"
                    /\ hist' = Append(hist, Event("email_failed", 0))
                    /\ UNCHANGED report
    /\ UNCHANGED <<run, last_pairs, payload, remote_only, profile, store, already_seen, focus, rok_jobs,
                   arb_jobs, muse_jobs, all_jobs, filtered, accepted, relevant_jobs,
                   i, ai, jobs_with_ai>>

\* the script is started again (the next scheduled morning)
NextRun ==
    /\ pc \in {"done", "crashed", "halted"}
    /\ run < MaxRuns
    /\ run' = run + 1
    /\ pc' = "config"
    /\ FreshRun
    /\ hist' = NoHist
    /\ last_pairs' = {jobs_with_ai[k][1].job_id : k \in 1..Len(jobs_with_ai)}
    /\ UNCHANGED <<store, focus>>

---------------------------------------------------------------------------
(* Inputs                                                                  *)

RokEntry(id, date) ==
    [is_dict |-> TRUE, id |-> id, date |-> date,
     position |-> <<"D", "a", "t", "a", " ", "L", "e", "a", "d">>, description |-> <<"<", "b", ">", "S", "Q", "L">>]

\* payload entries of RemoteOK: the legal notice that is no job, an entry
\* without id, and entries with every kind of timestamp
RokEntries ==
    {[is_dict |-> FALSE, id |-> 0, date |-> NoDate, position |-> <<>>, description |-> <<>>],
     RokEntry(0, Date(Now - 1))}
    \cup {RokEntry(1, d) : d \in Dates}

ArbEntry(slug, created_at) ==
    [slug |-> slug, created_at |-> created_at, title |-> <<"G", "o", " ", "D", "e", "v">>,
     location |-> <<>>, remote |-> TRUE, description |-> <<>>]

\* payload entries of Arbeitnow: a stale and a fresh one without slug, and
\* entries with every kind of timestamp
ArbEntries ==
    {ArbEntry(0, Date(Cutoff - 1)), ArbEntry(0, Date(Now - 1))}
    \cup {ArbEntry(1, d) : d \in Dates}

MuseEntry(id, publication_date) ==
    [id |-> id, publication_date |-> publication_date, name |-> <<"C", "h", "e", "f">>,
     locations |-> << <<"F", "l", "e", "x", "i", "b", "l", "e", " ", "/", " ", "R", "e", "m", "o", "t", "e">>, <<"N", "Y", "C">> >>, contents |-> <<"<", "p", ">", "M", "L", "<", "/", "p", ">">>]

\* payload entries of The Muse: a stale and a fresh one without id, and
\* entries with every kind of timestamp
MuseEntries ==
    {MuseEntry(0, Date(Cutoff - 1)), MuseEntry(0, Date(Now - 1))}
    \cup {MuseEntry(1, d) : d \in Dates}

\* what requests.get(...) may produce: a failure, or a payload of at most n entries
Responses(entries, n) ==
    {Response(s, <<>>) : s \in Statuses \ {"ok"}}
    \cup {Response("ok", d) : d \in SeqsUpTo(entries, n)}

\* the payload entries of a whole run: fresh and relevant, or stale
RunEntries(provider) ==
    CASE provider = "rok" -> {RokEntry(1, Date(Now - 1)), RokEntry(1, Date(Cutoff - 1))}
      [] provider = "arb" -> {ArbEntry(1, Date(Now - 1))}
      [] provider = "muse" -> {MuseEntry(1, Date(Now - 1))}

\* in a whole run a provider fails, or answers with at most one entry
RunResponses(provider) ==
    {Response("transport_error", <<>>)}
    \cup {Response("ok", d) : d \in SeqsUpTo(RunEntries(provider), 1)}

WideEntries(provider) ==
    CASE provider = "rok" -> RokEntries
      [] provider = "arb" -> ArbEntries
      [] provider = "muse" -> MuseEntries

\* the provider under focus answers with up to MaxEntries entries of any
\* kind, the others as in a whole run
FocusResponses(provider) ==
    IF focus = provider THEN Responses(WideEntries(provider), MaxEntries)
    ELSE RunResponses(provider)

Profile1 ==
    [target_roles |-> << <<"D", "a", "t", "a", " ", "E", "n", "g">>, <<"M", "L", " ", "D", "e", "v">> >>,
     skills |-> << <<"S", "Q", "L">>, <<"P", "y">>, <<"G", "o">>, <<"A", "W", "S">>, <<"G", "i", "t">>, <<"J", "S">>, <<"K", "8", "s">>, <<"T", "F">>, <<"Q", "A">> >>]

Profile2 ==
    [target_roles |-> <<>>, skills |-> << <<"s", "q", "l">>, <<"g", "o">> >>]

Profile3 ==
    [target_roles |-> << <<" ", "C", "h", "e", "f", " ", "d", "e", " ", "P", "a", "r", "t", "i", "e">> >>, skills |-> <<>>]

Profiles == {Profile1, Profile2, Profile3}

\* results of analyze_job: with a match_score or without one
Ais(scores) ==
    {NoAi} \cup {[has_score |-> TRUE, match_score |-> s] : s \in scores}

NoStore == [worksheet |-> FALSE, header |-> FALSE, rows |-> <<>>]
EmptySheet == [worksheet |-> TRUE, header |-> TRUE, rows |-> <<>>]

---------------------------------------------------------------------------
(* The script run day after day                                            *)

NothingFetched ==
    /\ payload = NoPayload
    /\ rok_jobs = <<>>
    /\ arb_jobs = <<>>
    /\ muse_jobs = <<>>

NothingFiltered ==
    /\ all_jobs = <<>>
    /\ filtered = <<>>
    /\ accepted = <<>>
    /\ relevant_jobs = <<>>
    /\ i = 0

NothingEnriched ==
    /\ ai = NoAi
    /\ jobs_with_ai = <<>>
    /\ report = <<>>

Idle ==
    /\ run = 1
    /\ remote_only = FALSE
    /\ profile = NoProfile
    /\ already_seen = {}
    /\ NothingFetched
    /\ NothingFiltered
    /\ NothingEnriched
    /\ hist = NoHist
    /\ last_pairs = {}

Init ==
    /\ pc = "config"
    /\ store \in {NoStore, EmptySheet}
    /\ focus = "rok"
    /\ Idle

Next ==
    \/ LoadConfig({FALSE})
    \/ AnalyzeResume({Profile1})
    \/ ConnectSheets
    \/ EnsureSheetHeaders
    \/ GetAlreadySeenIds
    \/ FetchRemoteOK(RunResponses("rok"))
    \/ FetchArbeitnow(RunResponses("arb"))
    \/ FetchTheMuse(RunResponses("muse"))
    \/ FilterJobs
    \/ AnalyzeJob(Ais({90}))
    \/ WriteJobToSheet
    \/ AppendPair
    \/ SendEmailDigest
    \/ NextRun

Spec == Init /\ [][Next]_vars

---------------------------------------------------------------------------
(* The adapters on every payload                                           *)

InitFetch ==
    /\ pc = "fetch_rok"
    /\ focus \in Providers
    /\ store = EmptySheet
    /\ run = 1
    /\ remote_only = FALSE
    /\ profile = Profile1
    /\ already_seen = {}
    /\ NothingFetched
    /\ NothingFiltered
    /\ NothingEnriched
    /\ hist = NoHist
    /\ last_pairs = {}

NextFetch ==
    \/ FetchRemoteOK(FocusResponses("rok"))
    \/ FetchArbeitnow(FocusResponses("arb"))
    \/ FetchTheMuse(FocusResponses("muse"))
    \/ FilterJobs

SpecFetch == InitFetch /\ [][NextFetch]_vars

---------------------------------------------------------------------------
(* The filter on long inputs                                               *)

\* what a posting says: title, description, location, remote
KindList ==
    << [title |-> <<"C", "h", "e", "f">>, description |-> <<>>, location |-> <<"R", "e", "m", "o", "t", "e">>, remote |-> TRUE],
       [title |-> <<"Q", "A", " ", "L", "e", "a", "d">>, description |-> <<>>, location |-> <<"A", "u", "s", "t", "i", "n">>, remote |-> TRUE],
       [title |-> <<"G", "o", " ", "D", "e", "v">>, description |-> <<>>, location |-> <<"B", "e", "r", "l", "i", "n">>, remote |-> FALSE],
       [title |-> <<"C", "h", "e", "f">>, description |-> <<"m", "l", " ", "o", "p", "s">>, location |-> <<>>, remote |-> FALSE],
       [title |-> <<"S", "Q", "L", " ", "D", "e", "v">>, description |-> <<>>, location |-> <<"N", "Y", "C">>, remote |-> FALSE],
       [title |-> <<"D", "a", "t", "a", " ", "L", "e", "a", "d">>, description |-> <<>>, location |-> <<"R", "e", "m", "o", "t", "e">>, remote |-> TRUE] >>

\* the kinds of two neighbouring postings of a listing
Patterns ==
    UNION {{<<KindList[a], KindList[b]>> : b \in a..Len(KindList)} : a \in 1..Len(KindList)}

\* a posting as the adapter of the provider would have built it
MakePosting(provider, n, kind) ==
    [job_id      |-> <<provider, n>>,
     title       |-> kind.title,
     location    |-> IF provider = "rok" THEN <<"R", "e", "m", "o", "t", "e">>
                     ELSE IF kind.location = <<>> /\ provider = "muse" THEN <<"N", "/", "A">>
                     ELSE kind.location,
     remote      |-> IF provider = "rok" THEN TRUE ELSE kind.remote,
     description |-> kind.description,
     posted_at   |-> Date(Now - 1),
     source      |-> CASE provider = "rok" -> "RemoteOK"
                       [] provider = "arb" -> "Arbeitnow"
                       [] provider = "muse" -> "The Muse"]

\* n postings of one provider: the kinds alternate as the pattern says, and
\* with repeats every id is delivered twice in a row
Listing(provider, n, pattern, repeats) ==
    [k \in 1..n |->
        MakePosting(provider,
                    IF repeats THEN (k + 1) \div 2 ELSE k,
                    pattern[((k - 1) % Len(pattern)) + 1])]

SeenSets == {{}, {<<"rok", 1>>, <<"arb", 2>>, <<"muse", 1>>}}

InitFilter ==
    /\ pc = "filter"
    /\ focus = "rok"
    /\ store = EmptySheet
    /\ run = 1
    /\ remote_only \in BOOLEAN
    /\ profile \in Profiles
    /\ already_seen \in SeenSets
    /\ \E pattern \in Patterns, repeats \in BOOLEAN, others \in {0, MaxVolume} :
          /\ rok_jobs \in {Listing("rok", n, pattern, repeats) : n \in 0..MaxVolume}
          /\ arb_jobs = Listing("arb", others, pattern, repeats)
          /\ muse_jobs = Listing("muse", others, pattern, repeats)
    /\ payload = NoPayload
    /\ NothingFiltered
    /\ NothingEnriched
    /\ hist = <<Event("read_ids", 0)>>
    /\ last_pairs = {}

NextFilter == FilterJobs

SpecFilter == InitFilter /\ [][NextFilter]_vars

---------------------------------------------------------------------------
(* The digest on every list of enriched pairs                              *)

DigestPosting(n) ==
    RemoteOKPosting([is_dict |-> TRUE, id |-> n, date |-> Date(Now - 1),
                     position |-> <<"D", "a", "t", "a", " ", "L", "e", "a", "d">>, description |-> <<>>])

\* lists of pairs as the enrichment loop leaves them: no posting twice
PairLists ==
    {s \in SeqsUpTo({DigestPosting(n) : n \in 1..MaxPairs} \X Ais({40, 70, 90}), MaxPairs) :
        \A a, b \in 1..Len(s) : a # b => s[a][1] # s[b][1]}

InitDigest ==
    /\ pc = "email"
    /\ focus = "rok"
    /\ store = EmptySheet
    /\ run = 1
    /\ remote_only = FALSE
    /\ profile = Profile1
    /\ already_seen = {}
    /\ NothingFetched
    /\ all_jobs = <<>>
    /\ filtered = <<>>
    /\ accepted = <<>>
    /\ jobs_with_ai \in PairLists
    /\ relevant_jobs = [k \in 1..Len(jobs_with_ai) |-> jobs_with_ai[k][1]]
    /\ i = Len(jobs_with_ai) + 1
    /\ ai = NoAi
    /\ report = <<>>
    /\ hist = NoHist
    /\ last_pairs = {}

NextDigest == SendEmailDigest

SpecDigest == InitDigest /\ [][NextDigest]_vars

---------------------------------------------------------------------------
(* Properties                                                              *)

\* the postings handed to the filter, provider by provider
Input == rok_jobs \o arb_jobs \o muse_jobs

\* the posting passes every test of the filter loop but the duplicate test
OtherwisePasses(job) ==
    /\ ~NotRemote(job, remote_only)
    /\ ~NonUS(job)
    /\ Relevant(job, TargetRoles(profile), Skills(profile))

\* the k-th smallest member of a set of positions
Nth(S, k) == CHOOSE n \in S : Cardinality({m \in S : m < n}) = k - 1

Min(a, b) == IF a < b THEN a ELSE b

(* C1: a posting whose job_id is in the already_seen set loaded at run     *)
(* start never appears in the list filter_relevant_jobs returns.           *)
C1_SeenNeverReturned ==
    \A k \in 1..Len(relevant_jobs) : relevant_jobs[k].job_id \notin already_seen

\* the filter has met a posting it would have kept had its id not been seen
C1_Witness ==
    /\ Did("filter")
    /\ relevant_jobs # <<>>
    /\ \E k \in 1..Len(all_jobs) :
          all_jobs[k].job_id \in already_seen /\ OtherwisePasses(all_jobs[k])

(* C2: no two entries of the list filter_relevant_jobs returns have the    *)
(* same job_id, whatever ids the input repeats.                            *)
C2_IdsUnique ==
    \A a, b \in 1..Len(relevant_jobs) :
        a # b => relevant_jobs[a].job_id # relevant_jobs[b].job_id

\* an id was accepted and came again in a posting that passes every other test
C2_Witness ==
    /\ Did("filter")
    /\ \E a, b \in 1..Len(all_jobs) :
          /\ a < b
          /\ all_jobs[a].job_id = all_jobs[b].job_id
          /\ a \in Range(accepted)
          /\ OtherwisePasses(all_jobs[b])

\* positions of Input whose posting passes every test but the duplicate test
PassingPositions == {k \in 1..Len(Input) : OtherwisePasses(Input[k])}

\* positions the filter must accept: passing, unseen, and not preceded by a
\* passing posting of the same id
AcceptedPositions ==
    LET P == PassingPositions
    IN  {k \in P :
            /\ Input[k].job_id \notin already_seen
            /\ \A j \in P : j < k => Input[j].job_id # Input[k].job_id}

(* C3: the list returned never has more than 20 entries, and it is the     *)
(* first min(20, k) of the k accepted postings in the order of the         *)
(* concatenated input: RemoteOK, then Arbeitnow, then The Muse.            *)
C3_CapAndOrder ==
    Did("filter") =>
        LET A == AcceptedPositions
        IN  /\ Len(relevant_jobs) <= 20
            /\ Len(relevant_jobs) = Min(20, Cardinality(A))
            /\ \A k \in 1..Len(relevant_jobs) : relevant_jobs[k] = Input[Nth(A, k)]

\* more than 20 postings were accepted, from all three providers
C3_Witness ==
    /\ Did("filter")
    /\ Len(filtered) > 20
    /\ Len(relevant_jobs) = 20
    /\ \A p \in Providers : \E k \in 1..Len(relevant_jobs) : relevant_jobs[k].job_id[1] = p

\* the timestamp lies at or after the cutoff
Fresh(d) == d.present /\ d.valid /\ d.t >= Cutoff

AllPostings == Range(rok_jobs) \cup Range(arb_jobs) \cup Range(muse_jobs)

(* C4 as claimed: every posting an adapter returns comes from an entry     *)
(* that has a recency timestamp inside the window; an entry without one    *)
(* yields no posting.                                                      *)
C4_Original == \A job \in AllPostings : Fresh(job.posted_at)

\* the posting is built from an entry of the payload of its provider
DrawnFrom(job, provider, key) ==
    /\ payload[provider].status = "ok"
    /\ \E n \in 1..Len(payload[provider].data) :
          /\ payload[provider].data[n][key] = job.job_id[2]
          /\ payload[provider].data[n][IF provider = "rok" THEN "date"
                                        ELSE IF provider = "arb" THEN "created_at"
                                        ELSE "publication_date"] = job.posted_at

(* C4 amended: every posting is drawn from an entry of the payload, and    *)
(* an entry whose timestamp is older than the 24-hour cutoff yields no     *)
(* posting; RemoteOK and The Muse also turn entries without a timestamp    *)
(* into postings, Arbeitnow does not.                                      *)
C4_NoStalePosting ==
    /\ \A job \in Range(rok_jobs) :
          /\ DrawnFrom(job, "rok", "id")
          /\ job.posted_at.present => Fresh(job.posted_at)
    /\ \A job \in Range(muse_jobs) :
          /\ DrawnFrom(job, "muse", "id")
          /\ job.posted_at.present => Fresh(job.posted_at)
    /\ \A job \in Range(arb_jobs) :
          /\ DrawnFrom(job, "arb", "slug")
          /\ Fresh(job.posted_at)

\* RemoteOK sent a stale entry and an undated one; only the undated one came back
C4_Witness ==
    /\ payload["rok"].status = "ok"
    /\ \E n \in 1..Len(payload["rok"].data) :
          LET e == payload["rok"].data[n]
          IN  e.is_dict /\ e.id # 0 /\ e.date.present /\ e.date.valid /\ e.date.t < Cutoff
    /\ Len(rok_jobs) = 1
    /\ ~rok_jobs[1].posted_at.present

\* the first word of a target role occurs in the title, in any letter case
TitleHasRoleKeyword(job) ==
    \E r \in 1..Len(profile.target_roles) :
        Contains(Lower(FirstWord(profile.target_roles[r])), Lower(job.title))

\* the first word of a target role occurs in title or description
TextHasRoleKeyword(job) ==
    \E r \in 1..Len(profile.target_roles) :
        Contains(Lower(FirstWord(profile.target_roles[r])),
                 Lower(job.title \o <<" ">> \o job.description))

\* one of the first 8 skills occurs in title or description
TextHasTopSkill(job) ==
    \E s \in 1..Min(8, Len(profile.skills)) :
        Contains(Lower(profile.skills[s]), Lower(job.title \o <<" ">> \o job.description))

\* the posting at position k is no duplicate and passes the remote-only and
\* geography checks
Eligible(k) ==
    /\ all_jobs[k].job_id \notin already_seen
    /\ \A j \in Range(accepted) : j < k => all_jobs[j].job_id # all_jobs[k].job_id
    /\ ~(remote_only /\ ~all_jobs[k].remote)
    /\ ~NonUS(all_jobs[k])

(* C5: among postings that are no duplicates and pass the remote-only and  *)
(* geography checks, one whose title holds a target-role keyword is        *)
(* accepted, one with a top-8 skill in title+description is accepted, and  *)
(* one with neither a role keyword nor a top-8 skill in its text is        *)
(* rejected.                                                               *)
C5_RelevancePredicate ==
    \A k \in 1..Len(all_jobs) :
        Eligible(k) =>
            /\ TitleHasRoleKeyword(all_jobs[k]) => k \in Range(accepted)
            /\ TextHasTopSkill(all_jobs[k]) => k \in Range(accepted)
            /\ (~TextHasRoleKeyword(all_jobs[k]) /\ ~TextHasTopSkill(all_jobs[k]))
                  => k \notin Range(accepted)

\* accepted on the role keyword alone, and accepted on one skill alone
C5_Witness ==
    /\ Did("filter")
    /\ \E k \in Range(accepted) :
          TitleHasRoleKeyword(all_jobs[k]) /\ ~TextHasTopSkill(all_jobs[k])
    /\ \E k \in Range(accepted) :
          ~TextHasRoleKeyword(all_jobs[k]) /\ TextHasTopSkill(all_jobs[k])

Scores(pairs) == [k \in 1..Len(pairs) |-> Score(pairs[k][2])]

\* the place of a pair in the digest
Place(p) == CHOOSE n \in 1..Len(report) : report[n] = p

(* C6: the digest lists the pairs by descending match score, pairs of      *)
(* equal score in their filtered order; scores 40, 90, 70 come out as      *)
(* 90, 70, 40.                                                             *)
C6_ReportOrder ==
    Did("email") =>
        /\ Len(report) = Len(jobs_with_ai)
        /\ \A k \in 1..Len(jobs_with_ai) : \E n \in 1..Len(report) : report[n] = jobs_with_ai[k]
        /\ \A a, b \in 1..Len(report) :
              a < b => Score(report[a][2]) >= Score(report[b][2])
        /\ \A a, b \in 1..Len(jobs_with_ai) :
              (a < b /\ Score(jobs_with_ai[a][2]) = Score(jobs_with_ai[b][2]))
                 => Place(jobs_with_ai[a]) < Place(jobs_with_ai[b])
        /\ Scores(jobs_with_ai) = <<40, 90, 70>> => Scores(report) = <<90, 70, 40>>

\* the digest of pairs scored 40, 90, 70 was delivered
C6_Witness ==
    /\ Did("email")
    /\ Scores(jobs_with_ai) = <<40, 90, 70>>
    /\ Scores(report) = <<90, 70, 40>>

\* the enrichment loop has been left
LoopOver ==
    /\ Did("filter")
    /\ relevant_jobs # <<>>
    /\ pc \in {"email", "done", "crashed"}

OracleFailures == {k \in 1..Len(relevant_jobs) : DidAt("oracle_failed", k)}
AppendFailures == {k \in 1..Len(relevant_jobs) : DidAt("append_failed", k)}

\* the postings neither the oracle nor append_row failed on
Enriched == (1..Len(relevant_jobs)) \ (OracleFailures \cup AppendFailures)

(* C7: a failed oracle call drops only its own posting: every posting of   *)
(* the filtered list is attempted, each posting on which nothing failed    *)
(* is written as exactly one row, and the loop ends with exactly those     *)
(* pairs in filtered order; with one oracle failure among N postings and   *)
(* no other failure that is N-1 rows and N-1 pairs.                        *)
C7_OracleFailureIsLocal ==
    LoopOver =>
        /\ \A k \in 1..Len(relevant_jobs) : DidAt("oracle", k) \/ DidAt("oracle_failed", k)
        /\ \A k \in Enriched : Times("append_row", k) = 1
        /\ \A k \in OracleFailures : Times("append_row", k) = 0
        /\ Len(jobs_with_ai) = Cardinality(Enriched)
        /\ \A n \in 1..Len(jobs_with_ai) :
              jobs_with_ai[n][1] = relevant_jobs[Nth(Enriched, n)]
        /\ (Cardinality(OracleFailures) = 1 /\ AppendFailures = {})
              => Len(jobs_with_ai) = Len(relevant_jobs) - 1

\* three postings, the oracle failed on the second only, the run came to its end
C7_Witness ==
    /\ pc = "done"
    /\ Len(relevant_jobs) = 3
    /\ OracleFailures = {2}
    /\ AppendFailures = {}
    /\ Len(jobs_with_ai) = 2
    /\ Did("email")

\* nothing came out of the filter
NothingRelevant == Did("filter") /\ relevant_jobs = <<>>

(* C8 as claimed: with an empty filtered list the run ends normally with   *)
(* no job-analysis call, no call that writes to the sheet and no report.   *)
C8_Original ==
    NothingRelevant =>
        /\ pc = "done"
        /\ ~Did("oracle") /\ ~Did("oracle_failed")
        /\ ~Did("insert_row") /\ ~Did("append_row") /\ ~Did("append_failed")
        /\ ~Did("email") /\ ~Did("email_failed")

(* C8 amended: with an empty filtered list the run ends normally with no   *)
(* job-analysis call, no append_row call and no report; the header row     *)
(* that ensure_sheet_headers may have inserted before the fetch is the     *)
(* only row the run writes.                                                *)
C8_NoEnrichmentWhenEmpty ==
    NothingRelevant =>
        /\ pc = "done"
        /\ ~Did("oracle") /\ ~Did("oracle_failed")
        /\ ~Did("append_row") /\ ~Did("append_failed")
        /\ ~Did("email") /\ ~Did("email_failed")
        /\ jobs_with_ai = <<>>
        /\ report = <<>>

\* RemoteOK sent only a stale entry, nothing else was fetched, and the run
\* had inserted the header row
C8_Witness ==
    /\ NothingRelevant
    /\ payload["rok"] = Response("ok", <<RokEntry(1, Date(Cutoff - 1))>>)
    /\ all_jobs = <<>>
    /\ Did("insert_row")
    /\ pc = "done"

\* the payload makes the adapter raise: the request or the decoding fails,
\* or an entry that is read carries an unusable field or lacks a needed one
AdapterFails(provider) ==
    LET resp == payload[provider]
        data == resp.data
    IN  \/ resp.status \in Statuses \ {"ok"}
        \/ /\ resp.status = "ok"
           /\ \E n \in 1..Len(data) :
                 CASE provider = "rok" ->
                        data[n].is_dict /\ data[n].id # 0
                        /\ data[n].date.present /\ ~data[n].date.valid
                   [] provider = "arb" ->
                        \/ data[n].created_at.present /\ ~data[n].created_at.valid
                        \/ Fresh(data[n].created_at) /\ data[n].slug = 0
                   [] provider = "muse" ->
                        \/ data[n].publication_date.present /\ ~data[n].publication_date.valid
                        \/ /\ data[n].id = 0
                           /\ ~data[n].publication_date.present \/ Fresh(data[n].publication_date)

JobsOf(provider) ==
    CASE provider = "rok" -> rok_jobs
      [] provider = "arb" -> arb_jobs
      [] provider = "muse" -> muse_jobs

(* C9: a failure inside one adapter makes that adapter return the empty    *)
(* list and does not end the run: the other adapters are called and the    *)
(* filter gets the concatenation of what the three returned.               *)
C9_AdapterFailureIsLocal ==
    /\ pc # "crashed"
    /\ \A p \in Providers : AdapterFails(p) => JobsOf(p) = <<>>
    /\ payload["rok"].status # "none" => pc # "fetch_rok"
    /\ payload["arb"].status # "none" => pc \notin {"fetch_rok", "fetch_arb"}
    /\ Did("filter") =>
          /\ \A p \in Providers : payload[p].status # "none"
          /\ all_jobs = rok_jobs \o arb_jobs \o muse_jobs

\* an entry of Arbeitnow made its adapter raise; the postings of the other
\* two providers went through the filter
C9_Witness ==
    /\ Did("filter")
    /\ payload["arb"].status = "ok"
    /\ AdapterFails("arb")
    /\ rok_jobs # <<>>
    /\ muse_jobs # <<>>
    /\ Len(all_jobs) = Len(rok_jobs) + Len(muse_jobs)
    /\ relevant_jobs # <<>>

PairIds == {jobs_with_ai[n][1].job_id : n \in 1..Len(jobs_with_ai)}

\* every pair is in the sheet; a row is written before its pair is recorded
\* and before the oracle is asked about a later posting
PersistedFirst ==
    /\ PairIds \subseteq Range(store.rows)
    /\ \A p \in 1..Len(hist) :
          hist[p].op = "pair" =>
             \E q \in 1..(p - 1) : hist[q] = Event("append_row", hist[p].k)
    /\ \A p, q \in 1..Len(hist) :
          (/\ hist[p].op \in {"oracle", "oracle_failed"}
           /\ hist[q].op = "append_row"
           /\ hist[q].k < hist[p].k) => q < p

\* the run has loaded its SeenSet
SeenSetLoaded == Did("read_ids") \/ Did("read_failed")

(* C10 as claimed: persistence is incremental, and every pair of a run is  *)
(* in the SeenSet of the next run.                                         *)
C10_Original ==
    /\ PersistedFirst
    /\ SeenSetLoaded => last_pairs \subseteq already_seen

(* C10 amended: persistence is incremental, so every pair in the result    *)
(* list is in the sheet; its id is in the SeenSet of the next run when     *)
(* that run reads the sheet successfully and finds the header row in       *)
(* place (a failed read, or a sheet whose header row is missing, leaves    *)
(* the SeenSet empty).                                                     *)
C10_IncrementalPersistence ==
    /\ PersistedFirst
    /\ last_pairs \subseteq Range(store.rows)
    /\ (Did("read_ids") /\ store.header) => last_pairs \subseteq already_seen

\* the second run saw the pairs of the first, enriched a posting the first
\* had dropped, and failed when it delivered the digest
C10_Witness ==
    /\ run = 2
    /\ Did("read_ids")
    /\ store.header
    /\ last_pairs # {}
    /\ last_pairs \subseteq already_seen
    /\ jobs_with_ai # <<>>
    /\ pc = "crashed"


---------------------------------------------------------------------------
(* Failures and the end of a run                                           *)

\* the failures main does not catch: the profile request of analyze_resume,
\* the connection to the spreadsheet, the delivery of the digest
Uncaught == Did("resume_failed") \/ Did("connect_failed") \/ Did("email_failed")

\* an adapter of this run raised inside its try-block
SourceFailed == \E p \in Providers : payload[p].status # "none" /\ AdapterFails(p)

\* the failures that are caught where they happen
CaughtFailure ==
    \/ Did("headers_failed")
    \/ Did("read_failed")
    \/ SourceFailed
    \/ Did("oracle_failed")
    \/ Did("append_failed")

(* C11 as claimed: only a missing configuration value ends a run before    *)
(* its normal end.                                                         *)
C11_Original ==
    /\ pc = "halted" <=> Did("config_missing")
    /\ pc # "crashed"

(* C11 amended: a run is ended before its normal end by a missing          *)
(* configuration value, and also by a failure of the profile request, of   *)
(* the store connection or of the report delivery, which main does not     *)
(* catch; a failure of the header check, the seen-id read, a provider      *)
(* fetch, a per-posting oracle request or a row append never ends the      *)
(* run, which goes on with its next step.                                  *)
C11_OnlyUncaughtFailuresEndTheRun ==
    /\ pc = "halted" <=> Did("config_missing")
    /\ pc = "crashed" <=> Uncaught
    /\ Did("email_failed") => jobs_with_ai # <<>> /\ PairIds \subseteq Range(store.rows)
    /\ CaughtFailure /\ ~Uncaught => pc \notin {"crashed", "halted"}

\* a run in which the header check, the seen-id read, an adapter, the
\* oracle and append_row all failed came to its normal end
C11_Witness ==
    /\ pc = "done"
    /\ Did("headers_failed")
    /\ Did("read_failed")
    /\ SourceFailed
    /\ Did("oracle_failed")
    /\ Did("append_failed")
    /\ ~Uncaught

---------------------------------------------------------------------------
(* The rows of the store over the runs                                     *)

NoRepeat(s) == \A p, q \in 1..Len(s) : s[p] = s[q] => p = q

\* the rows this run has appended so far, and the rows it found
AppendedNow == Cardinality({n \in 1..Len(hist) : hist[n].op = "append_row"})
RowsFound == SubSeq(store.rows, 1, Len(store.rows) - AppendedNow)
RowsAdded == SubSeq(store.rows, Len(store.rows) - AppendedNow + 1, Len(store.rows))

\* the run has read the ids of every row it found
SeenSetComplete == Did("read_ids") /\ store.header

(* C12 as claimed: the store never holds two rows with the same job_id.    *)
C12_Original == NoRepeat(store.rows)

(* C12 amended: a run appends a job_id at most once and never one that is  *)
(* in its SeenSet; a run whose seen-id read succeeded with the header row  *)
(* in place appends no job_id the store already holds, so it leaves a      *)
(* store without repeated job_ids as it found it.  (A run whose read       *)
(* failed, or found no header row, starts from an empty SeenSet and may    *)
(* append again what the store already holds.)                             *)
C12_NoRepeatedAppend ==
    /\ NoRepeat(RowsAdded)
    /\ Range(RowsAdded) \cap already_seen = {}
    /\ SeenSetComplete =>
          /\ Range(RowsAdded) \cap Range(RowsFound) = {}
          /\ NoRepeat(RowsFound) => NoRepeat(store.rows)

\* the second run read the ids of the rows of the first and appended a row
\* for a posting the first run had dropped
C12_Witness ==
    /\ run = 2
    /\ SeenSetComplete
    /\ already_seen # {}
    /\ RowsFound # <<>>
    /\ RowsAdded # <<>>
    /\ NoRepeat(store.rows)
=============================================================================
